---- MODULE Spec2Model ----
(***************************************************************************)
(* Model of examples/miller.py: the discrete quadrature evaluators         *)
(* (angular_momentum_i, discrete_total_energy_i), the trajectory           *)
(* aggregators (discrete_angular_momentum, discrete_total_energy), the     *)
(* drift computations (delta_angular_momentum, delta_total_energy) and the *)
(* comparison driver (main and the __main__ loop).                         *)
(*                                                                         *)
(* Floating-point numbers are exact rationals [num, den] in lowest terms.  *)
(* The biorbd model is an external library: the result of one of its       *)
(* functions is kept as a term over the arguments the code passes to it,   *)
(* so two results are equal exactly when the same function was queried     *)
(* with the same (q, qdot).                                                *)
(***************************************************************************)
EXTENDS Integers, Sequences, FiniteSets, TLC

VARIABLES
    pc,        \* evaluation harness: "ready", "returned" or "raised"
    call,      \* evaluation harness: the function called and its arguments
    outcome,   \* evaluation harness: what the call returned or raised, with its call log
    dpc,       \* driver: position in the script
    ode_solvers, \* driver: the configured list of scheme names
    idx,       \* driver: index (from 1) of the scheme of the current iteration
    sol,       \* driver: the solution returned by the producer in main
    files,     \* driver: the file system, file name -> content
    locals,    \* driver: the __main__ loop's variables (time_pos, q, time, energy, ...)
    figures,   \* driver: the series plotted on figures 1..4
    events     \* driver: history of the steps taken, in order

vars == <<pc, call, outcome, dpc, ode_solvers, idx, sol, files, locals, figures, events>>

evalVars == <<pc, call, outcome>>
driverVars == <<dpc, ode_solvers, idx, sol, files, locals, figures, events>>

-----------------------------------------------------------------------------
(* Bounds of the model *)

MaxFrames == 3
MaxDt == 2
MaxSchemes == 2

-----------------------------------------------------------------------------
(* Numbers *)

Abs(n) == IF n < 0 THEN -n ELSE n

RECURSIVE GCD(_, _)
GCD(a, b) == IF b = 0 THEN a ELSE GCD(b, a % b)

\* n/d in lowest terms with a positive denominator (d # 0)
Rat(n, d) ==
    LET g == GCD(Abs(n), Abs(d))
        s == IF d < 0 THEN -1 ELSE 1
    IN  [num |-> (s * n) \div g, den |-> (s * d) \div g]

R(n) == [num |-> n, den |-> 1]

RAdd(a, b) == Rat(a.num * b.den + b.num * a.den, a.den * b.den)
RSub(a, b) == Rat(a.num * b.den - b.num * a.den, a.den * b.den)
RDiv(a, b) == Rat(a.num * b.den, a.den * b.num)

\* numpy's elementwise operations on 1-D arrays
VecAdd(u, v) == [d \in DOMAIN u |-> RAdd(u[d], v[d])]
VecSub(u, v) == [d \in DOMAIN u |-> RSub(u[d], v[d])]
VecDiv(u, s) == [d \in DOMAIN u |-> RDiv(u[d], s)]

\* q.shape[1] of a 2-D array kept as a sequence of rows (one row per degree of freedom)
Shape1(q) == Len(q[1])

\* Python's index normalisation: a negative index counts from the end
PyIndex(n, i) == IF i < 0 THEN i + n ELSE i
InRange(n, i) == PyIndex(n, i) >= 0 /\ PyIndex(n, i) < n

\* q[:, i] and time[i] with Python's 0-based index i (in range)
Col(q, i) == [d \in DOMAIN q |-> q[d][PyIndex(Shape1(q), i) + 1]]
At(time, i) == time[PyIndex(Len(time), i) + 1]

-----------------------------------------------------------------------------
(* Quadrature rules: the members of QuadratureRule the code names, one     *)
(* other value standing for any rule it does not, and the omitted argument *)

Supported == {"MIDPOINT", "LEFT_APPROXIMATION", "RIGHT_APPROXIMATION", "TRAPEZOIDAL"}
OtherRule == "OTHER_RULE"
Omitted == "<omitted>"
RuleArgs == Supported \cup {OtherRule}

\* the default value of the parameter discrete_approximation
DefaultRule(arg) == IF arg = Omitted THEN "TRAPEZOIDAL" ELSE arg

-----------------------------------------------------------------------------
(* Results of the biorbd model, as terms. A scalar is a formal sum of      *)
(* signed terms; 0.0 is the empty sum.                                     *)

Query(fn, q, qdot) == [fn |-> fn, q |-> q, qdot |-> qdot]
Term(sign, fn, q, qdot) == [sign |-> sign, fn |-> fn, q |-> q, qdot |-> qdot]

Zero == <<>>
Neg(v) == [k \in DOMAIN v |-> [v[k] EXCEPT !.sign = -v[k].sign]]
Plus(a, b) == a \o b
Minus(a, b) == a \o Neg(b)

NoValue == <<>>
Returned(value, calls, queries) ==
    [raised |-> "none", value |-> value, calls |-> calls, queries |-> queries]
Raised(error, calls, queries) ==
    [raised |-> error, value |-> NoValue, calls |-> calls, queries |-> queries]

Invocation(fn, q1, q2, time_step, rule) ==
    [fn |-> fn, q1 |-> q1, q2 |-> q2, time_step |-> time_step, rule |-> rule]

-----------------------------------------------------------------------------
(* 4.1 Discrete quadrature evaluators *)

\* faulty variant: the TRAPEZOIDAL branch takes the left sample
angular_momentum_i_trapezoidal_left(q1, q2, time_step, discrete_approximation) ==
    LET me == Invocation("angular_momentum_i", q1, q2, time_step, discrete_approximation)
    IN  IF discrete_approximation \notin Supported
        THEN Raised("NotImplementedError", <<me>>, <<>>)
        ELSE LET q == CASE discrete_approximation = "MIDPOINT" -> VecDiv(VecAdd(q1, q2), R(2))
                        [] discrete_approximation = "LEFT_APPROXIMATION" -> q1
                        [] discrete_approximation = "RIGHT_APPROXIMATION" -> q2
                        [] discrete_approximation = "TRAPEZOIDAL" -> q1
                 qdot == VecDiv(VecSub(q2, q1), time_step)
             IN  Returned(<<Term(1, "norm(angularMomentum)", q, qdot)>>,
                          <<me>>,
                          <<Query("angularMomentum", q, qdot)>>)

angular_momentum_i(q1, q2, time_step, discrete_approximation) ==
    LET me == Invocation("angular_momentum_i", q1, q2, time_step, discrete_approximation)
    IN  IF discrete_approximation \notin Supported
        THEN Raised("NotImplementedError", <<me>>, <<>>)
        ELSE LET q == CASE discrete_approximation = "MIDPOINT" -> VecDiv(VecAdd(q1, q2), R(2))
                        [] discrete_approximation = "LEFT_APPROXIMATION" -> q1
                        [] discrete_approximation = "RIGHT_APPROXIMATION" -> q2
                        [] discrete_approximation = "TRAPEZOIDAL" -> VecDiv(VecAdd(q1, q2), R(2))
                 qdot == VecDiv(VecSub(q2, q1), time_step)
             IN  Returned(<<Term(1, "norm(angularMomentum)", q, qdot)>>,
                          <<me>>,
                          <<Query("angularMomentum", q, qdot)>>)

\* faulty variant: a rule that is not recognised falls back to the mean of the samples
discrete_total_energy_i_fallback(q1, q2, time_step, discrete_approximation) ==
    LET me == Invocation("discrete_total_energy_i", q1, q2, time_step, discrete_approximation)
        q == CASE discrete_approximation = "LEFT_APPROXIMATION" -> q1
               [] discrete_approximation = "RIGHT_APPROXIMATION" -> q2
               [] OTHER -> VecDiv(VecAdd(q1, q2), R(2))
        qdot == VecDiv(VecSub(q2, q1), time_step)
    IN  Returned(Plus(<<Term(1, "KineticEnergy", q, qdot)>>,
                      <<Term(1, "PotentialEnergy", q, <<>>)>>),
                 <<me>>,
                 <<Query("KineticEnergy", q, qdot), Query("PotentialEnergy", q, <<>>)>>)

discrete_total_energy_i(q1, q2, time_step, discrete_approximation) ==
    LET me == Invocation("discrete_total_energy_i", q1, q2, time_step, discrete_approximation)
    IN  IF discrete_approximation \notin Supported
        THEN Raised("NotImplementedError", <<me>>, <<>>)
        ELSE LET q == CASE discrete_approximation = "MIDPOINT" -> VecDiv(VecAdd(q1, q2), R(2))
                        [] discrete_approximation = "LEFT_APPROXIMATION" -> q1
                        [] discrete_approximation = "RIGHT_APPROXIMATION" -> q2
                        [] discrete_approximation = "TRAPEZOIDAL" -> VecDiv(VecAdd(q1, q2), R(2))
                 qdot == VecDiv(VecSub(q2, q1), time_step)
             IN  Returned(Plus(<<Term(1, "KineticEnergy", q, qdot)>>,
                               <<Term(1, "PotentialEnergy", q, <<>>)>>),
                          <<me>>,
                          <<Query("KineticEnergy", q, qdot), Query("PotentialEnergy", q, <<>>)>>)

-----------------------------------------------------------------------------
(* 4.2 Trajectory aggregators *)

\* np.zeros((n, 1)): n rows of one 0.0; a negative n is a ValueError
Zeros(n) == [k \in 1..n |-> <<Zero>>]

\* the body of "for i in range(n_frames - 1)" from index i on; acc is the
\* array filled so far with the log of the calls made
RECURSIVE discrete_angular_momentum_loop(_, _, _, _, _)
discrete_angular_momentum_loop(q, time, discrete_approximation, i, acc) ==
    IF i >= Shape1(q) - 1
    THEN acc
    ELSE LET r == angular_momentum_i(Col(q, i), Col(q, i + 1),
                                     RSub(At(time, i + 1), At(time, i)),
                                     discrete_approximation)
         IN  IF r.raised # "none"
             THEN Raised(r.raised, acc.calls \o r.calls, acc.queries \o r.queries)
             ELSE discrete_angular_momentum_loop(q, time, discrete_approximation, i + 1,
                      Returned([acc.value EXCEPT ![i + 1] = <<r.value>>],
                               acc.calls \o r.calls, acc.queries \o r.queries))

\* faulty variant: the loop starts at the second interval
discrete_angular_momentum_skip_first(q, time, rule_arg) ==
    LET discrete_approximation == DefaultRule(rule_arg)
        n_frames == Shape1(q)
    IN  IF n_frames - 1 < 0
        THEN Raised("ValueError", <<>>, <<>>)
        ELSE discrete_angular_momentum_loop(q, time, discrete_approximation, 1,
                 Returned(Zeros(n_frames - 1), <<>>, <<>>))

discrete_angular_momentum(q, time, rule_arg) ==
    LET discrete_approximation == DefaultRule(rule_arg)
        n_frames == Shape1(q)
    IN  IF n_frames - 1 < 0
        THEN Raised("ValueError", <<>>, <<>>)
        ELSE discrete_angular_momentum_loop(q, time, discrete_approximation, 0,
                 Returned(Zeros(n_frames - 1), <<>>, <<>>))

RECURSIVE discrete_total_energy_loop(_, _, _, _, _)
discrete_total_energy_loop(q, time, discrete_approximation, i, acc) ==
    IF i >= Shape1(q) - 1
    THEN acc
    ELSE LET r == discrete_total_energy_i(Col(q, i), Col(q, i + 1),
                                          RSub(At(time, i + 1), At(time, i)),
                                          discrete_approximation)
         IN  IF r.raised # "none"
             THEN Raised(r.raised, acc.calls \o r.calls, acc.queries \o r.queries)
             ELSE discrete_total_energy_loop(q, time, discrete_approximation, i + 1,
                      Returned([acc.value EXCEPT ![i + 1] = <<r.value>>],
                               acc.calls \o r.calls, acc.queries \o r.queries))

\* faulty variant: the number of rows is clamped at 0 before the allocation
discrete_total_energy_clamped(q, time, rule_arg) ==
    LET discrete_approximation == DefaultRule(rule_arg)
        n_frames == Shape1(q)
    IN  discrete_total_energy_loop(q, time, discrete_approximation, 0,
            Returned(Zeros(IF n_frames - 1 < 0 THEN 0 ELSE n_frames - 1), <<>>, <<>>))

discrete_total_energy(q, time, rule_arg) ==
    LET discrete_approximation == DefaultRule(rule_arg)
        n_frames == Shape1(q)
    IN  IF n_frames - 1 < 0
        THEN Raised("ValueError", <<>>, <<>>)
        ELSE discrete_total_energy_loop(q, time, discrete_approximation, 0,
                 Returned(Zeros(n_frames - 1), <<>>, <<>>))

-----------------------------------------------------------------------------
(* 4.3 Drift computations *)

delta_angular_momentum(q, time, rule_arg) ==
    LET discrete_approximation == DefaultRule(rule_arg)
    IN  IF ~(InRange(Shape1(q), 0) /\ InRange(Shape1(q), 1) /\ InRange(Len(time), 1)
                /\ InRange(Len(time), 0))
        THEN Raised("IndexError", <<>>, <<>>)
        ELSE LET start == angular_momentum_i(Col(q, 0), Col(q, 1),
                                             RSub(At(time, 1), At(time, 0)),
                                             discrete_approximation)
             IN  IF start.raised # "none"
                 THEN start
                 ELSE LET end == angular_momentum_i(Col(q, -2), Col(q, -1),
                                                    RSub(At(time, -2), At(time, -1)),
                                                    discrete_approximation)
                      IN  IF end.raised # "none"
                          THEN Raised(end.raised, start.calls \o end.calls,
                                      start.queries \o end.queries)
                          ELSE Returned(Minus(end.value, start.value),
                                        start.calls \o end.calls,
                                        start.queries \o end.queries)

\* faulty variant: the last evaluation takes the samples (-1, -2) in that order
delta_total_energy_swapped(q, time, rule_arg) ==
    LET discrete_approximation == DefaultRule(rule_arg)
    IN  IF ~(InRange(Shape1(q), 0) /\ InRange(Shape1(q), 1) /\ InRange(Len(time), 1)
                /\ InRange(Len(time), 0))
        THEN Raised("IndexError", <<>>, <<>>)
        ELSE LET start == discrete_total_energy_i(Col(q, 0), Col(q, 1),
                                                  RSub(At(time, 1), At(time, 0)),
                                                  discrete_approximation)
             IN  IF start.raised # "none"
                 THEN start
                 ELSE LET end == discrete_total_energy_i(Col(q, -1), Col(q, -2),
                                                         RSub(At(time, -2), At(time, -1)),
                                                         discrete_approximation)
                      IN  IF end.raised # "none"
                          THEN Raised(end.raised, start.calls \o end.calls,
                                      start.queries \o end.queries)
                          ELSE Returned(Minus(end.value, start.value),
                                        start.calls \o end.calls,
                                        start.queries \o end.queries)

delta_total_energy(q, time, rule_arg) ==
    LET discrete_approximation == DefaultRule(rule_arg)
    IN  IF ~(InRange(Shape1(q), 0) /\ InRange(Shape1(q), 1) /\ InRange(Len(time), 1)
                /\ InRange(Len(time), 0))
        THEN Raised("IndexError", <<>>, <<>>)
        ELSE LET start == discrete_total_energy_i(Col(q, 0), Col(q, 1),
                                                  RSub(At(time, 1), At(time, 0)),
                                                  discrete_approximation)
             IN  IF start.raised # "none"
                 THEN start
                 ELSE LET end == discrete_total_energy_i(Col(q, -2), Col(q, -1),
                                                         RSub(At(time, -2), At(time, -1)),
                                                         discrete_approximation)
                      IN  IF end.raised # "none"
                          THEN Raised(end.raised, start.calls \o end.calls,
                                      start.queries \o end.queries)
                          ELSE Returned(Minus(end.value, start.value),
                                        start.calls \o end.calls,
                                        start.queries \o end.queries)

-----------------------------------------------------------------------------
(* Inputs of the evaluation harness *)

\* sample coordinate vectors (two degrees of freedom)
Coords == { <<R(0), R(0)>>, <<R(1), R(0)>>, <<R(-1), R(12)>> }
Dofs == {1, 2}

\* non-zero time steps
DtVals == { R(n) : n \in (-MaxDt..MaxDt) \ {0} }

\* the 2-D array (one row per degree of freedom) whose columns are the frames
Matrix(frames) == [d \in Dofs |-> [k \in 1..Len(frames) |-> frames[k][d]]]

\* time samples starting at 0 with the given positive steps
RECURSIVE TimeOf(_)
TimeOf(steps) ==
    IF steps = <<>> THEN <<R(0)>>
    ELSE LET t == TimeOf(SubSeq(steps, 1, Len(steps) - 1))
         IN  Append(t, RAdd(t[Len(t)], R(steps[Len(steps)])))

\* trajectories of n samples: len(time) = number of columns of q, time strictly increasing
TrajectoriesOf(n) ==
    IF n = 0
    THEN { [q |-> Matrix(<<>>), time |-> <<>>] }
    ELSE { [q |-> Matrix(f), time |-> TimeOf(st)] :
               f \in [1..n -> Coords], st \in [1..(n - 1) -> 1..MaxDt] }

Trajectories == UNION { TrajectoriesOf(n) : n \in 0..MaxFrames }

NoCall == [fn |-> "none", q1 |-> <<>>, q2 |-> <<>>, time_step |-> R(0),
           q |-> <<>>, time |-> <<>>, rule |-> Omitted]
NoOutcome == [raised |-> "not called", value |-> NoValue, calls |-> <<>>, queries |-> <<>>]

EvaluatorCall(fn, q1, q2, time_step, rule) ==
    [fn |-> fn, q1 |-> q1, q2 |-> q2, time_step |-> time_step,
     q |-> <<>>, time |-> <<>>, rule |-> rule]
TrajectoryCall(fn, tr, rule) ==
    [fn |-> fn, q1 |-> <<>>, q2 |-> <<>>, time_step |-> R(0),
     q |-> tr.q, time |-> tr.time, rule |-> rule]

\* a call ends with the value returned or with the error raised
StatusOf(r) == IF r.raised = "none" THEN "returned" ELSE "raised"

CallAngularMomentumI ==
    /\ pc = "ready"
    /\ \E q1 \in Coords, q2 \in Coords, dt \in DtVals, rule \in RuleArgs :
           /\ call' = EvaluatorCall("angular_momentum_i", q1, q2, dt, rule)
           /\ outcome' = angular_momentum_i(q1, q2, dt, rule)
    /\ pc' = StatusOf(outcome')
    /\ UNCHANGED driverVars

CallDiscreteTotalEnergyI ==
    /\ pc = "ready"
    /\ \E q1 \in Coords, q2 \in Coords, dt \in DtVals, rule \in RuleArgs :
           /\ call' = EvaluatorCall("discrete_total_energy_i", q1, q2, dt, rule)
           /\ outcome' = discrete_total_energy_i(q1, q2, dt, rule)
    /\ pc' = StatusOf(outcome')
    /\ UNCHANGED driverVars

CallDiscreteAngularMomentum ==
    /\ pc = "ready"
    /\ \E tr \in Trajectories, rule \in RuleArgs \cup {Omitted} :
           /\ call' = TrajectoryCall("discrete_angular_momentum", tr, rule)
           /\ outcome' = discrete_angular_momentum(tr.q, tr.time, rule)
    /\ pc' = StatusOf(outcome')
    /\ UNCHANGED driverVars

CallDiscreteTotalEnergy ==
    /\ pc = "ready"
    /\ \E tr \in Trajectories, rule \in RuleArgs \cup {Omitted} :
           /\ call' = TrajectoryCall("discrete_total_energy", tr, rule)
           /\ outcome' = discrete_total_energy(tr.q, tr.time, rule)
    /\ pc' = StatusOf(outcome')
    /\ UNCHANGED driverVars

CallDeltaAngularMomentum ==
    /\ pc = "ready"
    /\ \E tr \in Trajectories, rule \in RuleArgs \cup {Omitted} :
           /\ call' = TrajectoryCall("delta_angular_momentum", tr, rule)
           /\ outcome' = delta_angular_momentum(tr.q, tr.time, rule)
    /\ pc' = StatusOf(outcome')
    /\ UNCHANGED driverVars

CallDeltaTotalEnergy ==
    /\ pc = "ready"
    /\ \E tr \in Trajectories, rule \in RuleArgs \cup {Omitted} :
           /\ call' = TrajectoryCall("delta_total_energy", tr, rule)
           /\ outcome' = delta_total_energy(tr.q, tr.time, rule)
    /\ pc' = StatusOf(outcome')
    /\ UNCHANGED driverVars

\* the caller takes the result (or handles the error) and may call again
NextCall ==
    /\ pc \in {"returned", "raised"}
    /\ pc' = "ready"
    /\ call' = NoCall
    /\ outcome' = NoOutcome
    /\ UNCHANGED driverVars

NoFiles == [name \in {} |-> name]
NoLocals == [time |-> <<>>, energy |-> <<>>, angular_momentum |-> <<>>,
             time_pos |-> <<>>, q |-> <<>>, delta_energy |-> <<>>, delta_am |-> <<>>]
NoSol == <<>>
NoFigures == [f \in 1..4 |-> <<>>]

InitEval ==
    /\ pc = "ready"
    /\ call = NoCall
    /\ outcome = NoOutcome
    /\ dpc = "off"
    /\ ode_solvers = <<>>
    /\ idx = 0
    /\ sol = NoSol
    /\ files = NoFiles
    /\ locals = NoLocals
    /\ figures = NoFigures
    /\ events = <<>>

NextEval ==
    \/ CallAngularMomentumI
    \/ CallDiscreteTotalEnergyI
    \/ CallDiscreteAngularMomentum
    \/ CallDiscreteTotalEnergy
    \/ CallDeltaAngularMomentum
    \/ CallDeltaTotalEnergy
    \/ NextCall

SpecEval == InitEval /\ [][NextEval]_vars

-----------------------------------------------------------------------------
(* Artifacts: the pickle written by save_results and the JSON text written *)
(* by main and read back by the __main__ loop                              *)

height == 2

DigitChars == <<"0", "1", "2", "3", "4", "5", "6", "7", "8", "9">>

\* str() of a non-negative integer, one character per element
RECURSIVE IntDigits(_)
IntDigits(n) ==
    IF n < 10 THEN <<DigitChars[n + 1]>>
    ELSE IntDigits(n \div 10) \o <<DigitChars[(n % 10) + 1]>>

\* float.__repr__ of an integer-valued float, as json.dumps writes it: 12.0, -1.0
FloatRepr(x) ==
    (IF x.num < 0 THEN <<"-">> ELSE <<>>) \o IntDigits(Abs(x.num) \div x.den) \o <<".", "0">>

DigitValue(c) == CHOOSE d \in 0..9 : DigitChars[d + 1] = c

RECURSIVE DigitsValue(_)
DigitsValue(cs) ==
    IF cs = <<>> THEN 0
    ELSE 10 * DigitsValue(SubSeq(cs, 1, Len(cs) - 1)) + DigitValue(cs[Len(cs)])

RECURSIVE Pow10(_)
Pow10(k) == IF k = 0 THEN 1 ELSE 10 * Pow10(k - 1)

\* json's number parser on [-]digits.digits
ParseFloat(text) ==
    LET neg == text[1] = "-"
        body == IF neg THEN SubSeq(text, 2, Len(text)) ELSE text
        dot == CHOOSE k \in 1..Len(body) : body[k] = "."
        whole == SubSeq(body, 1, dot - 1)
        frac == SubSeq(body, dot + 1, Len(body))
        mag == Rat(DigitsValue(whole) * Pow10(Len(frac)) + DigitsValue(frac), Pow10(Len(frac)))
    IN  IF neg THEN Rat(-mag.num, mag.den) ELSE mag

\* f"{height}m" and ode_name + ".json"
PickleName == IntDigits(height) \o <<"m">>
JsonName(ode_name) == <<ode_name, ".json">>

\* the dict pickled by save_results
save_results(s) ==
    [format |-> "pickle",
     data |-> [states |-> s.states, controls |-> s.controls, parameters |-> s.parameters,
               iterations |-> s.iterations, cost |-> s.cost,
               detailed_cost |-> s.detailed_cost,
               real_time_to_optimize |-> s.real_time_to_optimize,
               status |-> s.status, time |-> s.time]]

\* json.dumps({"q": q.tolist(), "time": time.tolist()}, indent=4)
json_dumps(q, time) ==
    [format |-> "json",
     data |-> [q |-> [d \in DOMAIN q |-> [k \in DOMAIN q[d] |-> FloatRepr(q[d][k])]],
               time |-> [k \in DOMAIN time |-> FloatRepr(time[k])]]]

\* json.load(file)
json_load(artifact) ==
    [q |-> [d \in DOMAIN artifact.data.q |->
               [k \in DOMAIN artifact.data.q[d] |-> ParseFloat(artifact.data.q[d][k])]],
     time |-> [k \in DOMAIN artifact.data.time |-> ParseFloat(artifact.data.time[k])]]

\* a[:-1] of a 1-D array
AllButLast(a) == SubSeq(a, 1, Len(a) - 1)

-----------------------------------------------------------------------------
(* 4.4 Comparison driver *)

SchemeNames == {"RK4", "Collocation_explicit", "Collocation_implicit"}

\* a solution object of the trajectory producer
Solution(frames, steps, status) ==
    [states |-> [q |-> Matrix(frames)], time |-> TimeOf(steps), status |-> status,
     controls |-> "controls", parameters |-> "parameters",
     iterations |-> 100 * Len(frames) + status, cost |-> "cost",
     detailed_cost |-> "detailed_cost", real_time_to_optimize |-> "seconds"]

\* what the producer may return: converged solutions (status 0) and one the
\* solver returns without having converged (status 1)
SolverOutputs ==
    { Solution(<< <<R(0), R(0)>>, <<R(1), R(0)>> >>, <<1>>, 0),
      Solution(<< <<R(0), R(0)>>, <<R(1), R(0)>>, <<R(-1), R(12)>> >>, <<1, 1>>, 0),
      Solution(<< <<R(1), R(0)>>, <<R(-1), R(12)>>, <<R(0), R(0)>> >>, <<2, 1>>, 1) }

Event(ev, scheme, s) == [ev |-> ev, scheme |-> scheme, sol |-> s]

\* for ode_solver in ode_solvers: the next scheme enters main
ForNext ==
    /\ dpc = "for"
    /\ idx < Len(ode_solvers)
    /\ idx' = idx + 1
    /\ dpc' = "main_build"
    /\ events' = Append(events, Event("begin", idx + 1, NoSol))
    /\ UNCHANGED <<ode_solvers, sol, files, locals, figures>>
    /\ UNCHANGED evalVars

\* the loop is exhausted: titles, legends
ForEnd ==
    /\ dpc = "for"
    /\ idx = Len(ode_solvers)
    /\ dpc' = "show"
    /\ events' = Append(events, Event("end", idx, NoSol))
    /\ UNCHANGED <<ode_solvers, idx, sol, files, locals, figures>>
    /\ UNCHANGED evalVars

\* plt.show()
Show ==
    /\ dpc = "show"
    /\ dpc' = "done"
    /\ events' = Append(events, Event("show", idx, NoSol))
    /\ UNCHANGED <<ode_solvers, idx, sol, files, locals, figures>>
    /\ UNCHANGED evalVars

\* main: MillerOcpOnePhase(...) builds the program
BuildOcp ==
    /\ dpc = "main_build"
    /\ dpc' = "main_solve"
    /\ events' = Append(events, Event("build", idx, NoSol))
    /\ UNCHANGED <<ode_solvers, idx, sol, files, locals, figures>>
    /\ UNCHANGED evalVars

\* main: building the program raises (the model cannot be loaded); nothing catches it
BuildFails ==
    /\ dpc = "main_build"
    /\ dpc' = "aborted"
    /\ events' = Append(events, Event("fail", idx, NoSol))
    /\ UNCHANGED <<ode_solvers, idx, sol, files, locals, figures>>
    /\ UNCHANGED evalVars

\* main: sol = miller.ocp.solve(solv)
Solve ==
    /\ dpc = "main_solve"
    /\ \E s \in SolverOutputs :
           /\ sol' = s
           /\ events' = Append(events, Event("solve", idx, s))
    /\ dpc' = "main_save"
    /\ UNCHANGED <<ode_solvers, idx, files, locals, figures>>
    /\ UNCHANGED evalVars

\* faulty variant: the failure is swallowed and the loop goes on to the next scheme
SolveFails_continue ==
    /\ dpc = "main_solve"
    /\ dpc' = "for"
    /\ events' = Append(events, Event("fail", idx, NoSol))
    /\ UNCHANGED <<ode_solvers, idx, sol, files, locals, figures>>
    /\ UNCHANGED evalVars

\* main: solve raises; nothing catches it
SolveFails ==
    /\ dpc = "main_solve"
    /\ dpc' = "aborted"
    /\ events' = Append(events, Event("fail", idx, NoSol))
    /\ UNCHANGED <<ode_solvers, idx, sol, files, locals, figures>>
    /\ UNCHANGED evalVars

\* faulty variant: the pickle is named after the scheme
SaveResults_per_scheme ==
    /\ dpc = "main_save"
    /\ files' = (<<ode_solvers[idx], "m">> :> save_results(sol)) @@ files
    /\ dpc' = "main_json"
    /\ events' = Append(events, Event("save_results", idx, NoSol))
    /\ UNCHANGED <<ode_solvers, idx, sol, locals, figures>>
    /\ UNCHANGED evalVars

\* main: save_results(sol, f"{height}m")
SaveResults ==
    /\ dpc = "main_save"
    /\ files' = (PickleName :> save_results(sol)) @@ files
    /\ dpc' = "main_json"
    /\ events' = Append(events, Event("save_results", idx, NoSol))
    /\ UNCHANGED <<ode_solvers, idx, sol, locals, figures>>
    /\ UNCHANGED evalVars

\* main: sol.graphs(...), then the dictionary of q and time is written to ode_name + ".json"
WriteJson ==
    /\ dpc = "main_json"
    /\ files' = (JsonName(ode_solvers[idx]) :> json_dumps(sol.states.q, sol.time)) @@ files
    /\ dpc' = "main_return"
    /\ events' = Append(events, Event("write_json", idx, NoSol))
    /\ UNCHANGED <<ode_solvers, idx, sol, locals, figures>>
    /\ UNCHANGED evalVars

\* main returns (sol.time[:-1], discrete_total_energy(...), discrete_angular_momentum(...))
\* on the live solution; __main__ binds them to time, energy, angular_momentum
MainReturn ==
    /\ dpc = "main_return"
    /\ LET e == discrete_total_energy(sol.states.q, sol.time, Omitted)
           a == discrete_angular_momentum(sol.states.q, sol.time, Omitted)
       IN  IF e.raised # "none" \/ a.raised # "none"
           THEN /\ dpc' = "aborted"
                /\ UNCHANGED locals
           ELSE /\ dpc' = "read"
                /\ locals' = [locals EXCEPT !.time = AllButLast(sol.time),
                                            !.energy = e.value,
                                            !.angular_momentum = a.value]
    /\ events' = Append(events, Event("main_return", idx, NoSol))
    /\ UNCHANGED <<ode_solvers, idx, sol, files, figures>>
    /\ UNCHANGED evalVars

\* faulty variant: the artifact of the first scheme of the list is read
ReadJson_first_scheme ==
    /\ dpc = "read"
    /\ locals' = [locals EXCEPT !.time_pos = json_load(files[JsonName(ode_solvers[1])])]
    /\ dpc' = "recompute"
    /\ events' = Append(events, Event("read_json", idx, NoSol))
    /\ UNCHANGED <<ode_solvers, idx, sol, files, figures>>
    /\ UNCHANGED evalVars

\* with open(ode_solver[1] + ".json", "r") as file: time_pos = json.load(file)
ReadJson ==
    /\ dpc = "read"
    /\ locals' = [locals EXCEPT !.time_pos = json_load(files[JsonName(ode_solvers[idx])])]
    /\ dpc' = "recompute"
    /\ events' = Append(events, Event("read_json", idx, NoSol))
    /\ UNCHANGED <<ode_solvers, idx, sol, files, figures>>
    /\ UNCHANGED evalVars

\* time, q = np.asarray(...) of the loaded lists; the four quantities are recomputed
Recompute ==
    /\ dpc = "recompute"
    /\ LET time == locals.time_pos.time
           q == locals.time_pos.q
           e == discrete_total_energy(q, time, Omitted)
           a == discrete_angular_momentum(q, time, Omitted)
           de == delta_total_energy(q, time, Omitted)
           da == delta_angular_momentum(q, time, Omitted)
       IN  IF e.raised # "none" \/ a.raised # "none" \/ de.raised # "none" \/ da.raised # "none"
           THEN /\ dpc' = "aborted"
                /\ UNCHANGED locals
           ELSE /\ dpc' = "plot"
                /\ locals' = [locals EXCEPT !.time = time, !.q = q,
                                            !.energy = e.value,
                                            !.angular_momentum = a.value,
                                            !.delta_energy = de.value,
                                            !.delta_am = da.value]
    /\ events' = Append(events, Event("recompute", idx, NoSol))
    /\ UNCHANGED <<ode_solvers, idx, sol, files, figures>>
    /\ UNCHANGED evalVars

Series(x, y, label) == [x |-> x, y |-> y, label |-> label]

\* plt.figure(1..4); plt.plot(...) with the scheme's name as label
Plot ==
    /\ dpc = "plot"
    /\ figures' =
          [f \in 1..4 |->
              Append(figures[f],
                  CASE f = 1 -> Series(AllButLast(locals.time), locals.energy, ode_solvers[idx])
                    [] f = 2 -> Series(AllButLast(locals.time), locals.angular_momentum,
                                       ode_solvers[idx])
                    [] f = 3 -> Series(<<R(10)>>, locals.delta_energy, ode_solvers[idx])
                    [] f = 4 -> Series(<<R(10)>>, locals.delta_am, ode_solvers[idx]))]
    /\ dpc' = "for"
    /\ events' = Append(events, Event("plot", idx, NoSol))
    /\ UNCHANGED <<ode_solvers, idx, sol, files, locals>>
    /\ UNCHANGED evalVars

InitDriver ==
    /\ pc = "off"
    /\ call = NoCall
    /\ outcome = NoOutcome
    /\ dpc = "for"
    /\ ode_solvers \in UNION { [1..n -> SchemeNames] : n \in 1..MaxSchemes }
    /\ idx = 0
    /\ sol = NoSol
    /\ files = NoFiles
    /\ locals = NoLocals
    /\ figures = NoFigures
    /\ events = <<>>

NextDriver ==
    \/ ForNext
    \/ ForEnd
    \/ Show
    \/ BuildOcp
    \/ BuildFails
    \/ Solve
    \/ SolveFails
    \/ SaveResults
    \/ WriteJson
    \/ MainReturn
    \/ ReadJson
    \/ Recompute
    \/ Plot

SpecDriver == InitDriver /\ [][NextDriver]_vars

-----------------------------------------------------------------------------
(* Properties of the evaluators, aggregators and drift computations,       *)
(* checked under SpecEval                                                  *)

\* the rational x equals n/d
SameRat(x, n, d) == x.num * d = n * x.den

\* x = (a + b) / 2
IsHalfSum(x, a, b) == SameRat(x, a.num * b.den + b.num * a.den, 2 * a.den * b.den)
\* x = (b - a) / dt
IsQuotient(x, a, b, dt) ==
    SameRat(x, (b.num * a.den - a.num * b.den) * dt.den, a.den * b.den * dt.num)

IsRepresentative(rule, qr, q1, q2) ==
    /\ DOMAIN qr = DOMAIN q1
    /\ \A d \in DOMAIN q1 :
          CASE rule \in {"MIDPOINT", "TRAPEZOIDAL"} -> IsHalfSum(qr[d], q1[d], q2[d])
            [] rule = "LEFT_APPROXIMATION" -> qr[d] = q1[d]
            [] rule = "RIGHT_APPROXIMATION" -> qr[d] = q2[d]

IsVelocity(qd, q1, q2, dt) ==
    /\ DOMAIN qd = DOMAIN q1
    /\ \A d \in DOMAIN q1 : IsQuotient(qd[d], q1[d], q2[d], dt)

EvaluatorFns == {"angular_momentum_i", "discrete_total_energy_i"}
AggregatorFns == {"discrete_angular_momentum", "discrete_total_energy"}
DriftFns == {"delta_angular_momentum", "delta_total_energy"}

EvaluatorOf(fn) ==
    IF fn \in {"discrete_angular_momentum", "delta_angular_momentum"}
    THEN "angular_momentum_i" ELSE "discrete_total_energy_i"

TwinRule(rule) ==
    CASE rule = "MIDPOINT" -> "TRAPEZOIDAL"
      [] rule = "TRAPEZOIDAL" -> "MIDPOINT"
      [] OTHER -> rule

\* C1: for every (q1, q2), non-zero dt and supported rule, both evaluators
\* query the model at (q_rep, qdot) with q_rep = (q1 + q2) / 2 for MIDPOINT and
\* TRAPEZOIDAL, q1 for LEFT_APPROXIMATION, q2 for RIGHT_APPROXIMATION and
\* qdot = (q2 - q1) / dt for every rule; MIDPOINT and TRAPEZOIDAL give the same
\* result; the energy is KineticEnergy(q_rep, qdot) + PotentialEnergy(q_rep)
\* and the angular momentum is the norm of angularMomentum(q_rep, qdot).
C1_EvaluatorContract ==
    (call.fn \in EvaluatorFns /\ call.rule \in Supported) =>
        LET qs == outcome.queries
            twin == IF call.fn = "angular_momentum_i"
                    THEN angular_momentum_i(call.q1, call.q2, call.time_step,
                                            TwinRule(call.rule))
                    ELSE discrete_total_energy_i(call.q1, call.q2, call.time_step,
                                                 TwinRule(call.rule))
        IN  /\ pc = "returned"
            /\ Len(qs) >= 1
            /\ IsRepresentative(call.rule, qs[1].q, call.q1, call.q2)
            /\ IsVelocity(qs[1].qdot, call.q1, call.q2, call.time_step)
            /\ call.fn = "discrete_total_energy_i" =>
                  /\ qs = <<Query("KineticEnergy", qs[1].q, qs[1].qdot),
                            Query("PotentialEnergy", qs[1].q, <<>>)>>
                  /\ outcome.value = <<Term(1, "KineticEnergy", qs[1].q, qs[1].qdot),
                                       Term(1, "PotentialEnergy", qs[1].q, <<>>)>>
            /\ call.fn = "angular_momentum_i" =>
                  /\ qs = <<Query("angularMomentum", qs[1].q, qs[1].qdot)>>
                  /\ outcome.value = <<Term(1, "norm(angularMomentum)", qs[1].q, qs[1].qdot)>>
            /\ twin.value = outcome.value
            /\ twin.queries = outcome.queries

C1_Witness ==
    /\ pc = "returned"
    /\ call.fn = "discrete_total_energy_i"
    /\ call.rule = "TRAPEZOIDAL"
    /\ call.q1 # call.q2
    /\ call.time_step = R(-2)
    /\ outcome.queries[1].q = <<Rat(1, 2), R(0)>>

\* C2: an unsupported rule makes both evaluators fail at once with the
\* unsupported-rule error: nothing is returned, the model is never queried and
\* no rule is substituted; through the aggregators and the drift computations
\* on a trajectory of at least 2 samples the error propagates from the first
\* evaluation and no partial result is returned.
C2_UnsupportedRuleFails ==
    (/\ call.fn # "none"
     /\ call.rule = OtherRule
     /\ call.fn \notin EvaluatorFns => Shape1(call.q) >= 2) =>
        /\ pc = "raised"
        /\ outcome.raised = "NotImplementedError"
        /\ outcome.value = NoValue
        /\ outcome.queries = <<>>
        /\ Len(outcome.calls) = 1
        /\ outcome.calls[1].rule = OtherRule

C2_Witness ==
    /\ pc = "raised"
    /\ call.fn = "discrete_total_energy"
    /\ call.rule = OtherRule
    /\ Shape1(call.q) = 3
    /\ outcome.raised = "NotImplementedError"

\* C3: on a trajectory of N >= 2 samples the aggregators return exactly N-1
\* values, the value at index i being the evaluator's result for
\* (q_i, q_{i+1}) with dt = t_{i+1} - t_i and the given rule (TRAPEZOIDAL
\* when none is given); the evaluator is invoked once per consecutive pair,
\* in increasing order of i.
C3_AggregatePerInterval ==
    (/\ call.fn \in AggregatorFns
     /\ call.rule # OtherRule
     /\ Shape1(call.q) >= 2) =>
        LET n == Shape1(call.q)
            rule == IF call.rule = Omitted THEN "TRAPEZOIDAL" ELSE call.rule
            qi(k) == [d \in DOMAIN call.q |-> call.q[d][k]]
            dt(k) == RSub(call.time[k + 1], call.time[k])
            one(k) == IF call.fn = "discrete_angular_momentum"
                      THEN angular_momentum_i(qi(k), qi(k + 1), dt(k), rule)
                      ELSE discrete_total_energy_i(qi(k), qi(k + 1), dt(k), rule)
        IN  /\ pc = "returned"
            /\ Len(outcome.value) = n - 1
            /\ Len(outcome.calls) = n - 1
            /\ \A k \in 1..(n - 1) :
                  /\ outcome.value[k] = <<one(k).value>>
                  /\ outcome.calls[k] =
                        Invocation(EvaluatorOf(call.fn), qi(k), qi(k + 1), dt(k), rule)

C3_Witness ==
    /\ pc = "returned"
    /\ call.fn = "discrete_angular_momentum"
    /\ call.rule = Omitted
    /\ Shape1(call.q) = 3
    /\ Len(outcome.calls) = 2
    /\ outcome.calls[1].rule = "TRAPEZOIDAL"
    /\ outcome.calls[1] # outcome.calls[2]

\* the value of the aggregation's interval k (from 1) of the called trajectory
AggregateOf(fn, q, time, rule) ==
    IF fn = "delta_angular_momentum"
    THEN discrete_angular_momentum(q, time, rule)
    ELSE discrete_total_energy(q, time, rule)

C5_FewSamplesEmpty ==
    (call.fn \in AggregatorFns /\ Shape1(call.q) < 2) =>
        /\ pc = "returned"
        /\ outcome.value = <<>>
        /\ outcome.calls = <<>>
        /\ outcome.queries = <<>>

\* C5 as amended: with N = 1 the aggregators return an empty result; with
\* N = 0 the allocation of n_frames - 1 = -1 rows raises a ValueError and
\* nothing is returned; in both cases the evaluator is never invoked.
C5_FewSamplesEmptyOrError ==
    (call.fn \in AggregatorFns /\ Shape1(call.q) < 2) =>
        /\ outcome.calls = <<>>
        /\ outcome.queries = <<>>
        /\ outcome.value = <<>>
        /\ Shape1(call.q) = 1 => (pc = "returned" /\ outcome.raised = "none")
        /\ Shape1(call.q) = 0 => (pc = "raised" /\ outcome.raised = "ValueError")

C5_Witness ==
    /\ call.fn = "discrete_total_energy"
    /\ Shape1(call.q) = 0
    /\ pc = "raised"
    /\ outcome.raised = "ValueError"

IsPositive(x) == x.num > 0 /\ x.den > 0

\* C8: the drift computations treat the first and the last interval alike:
\* the first evaluation uses samples (0, 1) with dt = t_1 - t_0, the last one
\* samples (N-2, N-1) with dt = t_{N-1} - t_{N-2}, so with strictly
\* increasing time every time step handed to the evaluator is positive.
C8_DriftIntervalsSymmetric ==
    (/\ call.fn \in DriftFns
     /\ call.rule # OtherRule
     /\ Shape1(call.q) >= 2) =>
        LET n == Shape1(call.q)
            rule == IF call.rule = Omitted THEN "TRAPEZOIDAL" ELSE call.rule
            qi(k) == [d \in DOMAIN call.q |-> call.q[d][k]]
        IN  /\ Len(outcome.calls) = 2
            /\ outcome.calls[1] =
                  Invocation(EvaluatorOf(call.fn), qi(1), qi(2),
                             RSub(call.time[2], call.time[1]), rule)
            /\ outcome.calls[2] =
                  Invocation(EvaluatorOf(call.fn), qi(n - 1), qi(n),
                             RSub(call.time[n], call.time[n - 1]), rule)
            /\ \A k \in 1..2 : IsPositive(outcome.calls[k].time_step)

-----------------------------------------------------------------------------
(* Properties of the comparison driver, checked under SpecDriver           *)

PositionsOf(ev, k) == { p \in DOMAIN events : events[p].ev = ev /\ events[p].scheme = k }
Last(S) == CHOOSE p \in S : \A o \in S : o <= p

\* C6: for every scheme the producer solves, the coordinates-and-time
\* artifact named after the scheme is written, that artifact is read back,
\* and only then the four quantities are computed and plotted; every plotted
\* series is computed from the q and time reloaded from that scheme's artifact.
C6_PersistReloadThenPlot ==
    /\ \A p \in DOMAIN events :
          events[p].ev = "plot" =>
              \E s \in PositionsOf("solve", events[p].scheme),
                 w \in PositionsOf("write_json", events[p].scheme),
                 r \in PositionsOf("read_json", events[p].scheme),
                 c \in PositionsOf("recompute", events[p].scheme) :
                  s < w /\ w < r /\ r < c /\ c < p
    /\ \A f \in 1..4 :
          Len(figures[f]) = Cardinality({ p \in DOMAIN events : events[p].ev = "plot" })
    /\ (events # <<>> /\ events[Len(events)].ev = "plot") =>
          LET name == ode_solvers[idx]
              reloaded == json_load(files[JsonName(name)])
              q == reloaded.q
              time == reloaded.time
              x == SubSeq(time, 1, Len(time) - 1)
          IN  /\ figures[1][idx] =
                    Series(x, discrete_total_energy(q, time, "TRAPEZOIDAL").value, name)
              /\ figures[2][idx] =
                    Series(x, discrete_angular_momentum(q, time, "TRAPEZOIDAL").value, name)
              /\ figures[3][idx] =
                    Series(<<R(10)>>, delta_total_energy(q, time, "TRAPEZOIDAL").value, name)
              /\ figures[4][idx] =
                    Series(<<R(10)>>, delta_angular_momentum(q, time, "TRAPEZOIDAL").value, name)

C6_Witness ==
    /\ idx = 2
    /\ events[Len(events)].ev = "plot"
    /\ ode_solvers[1] # ode_solvers[2]
    /\ figures[1][1].y # figures[1][2].y
    /\ Len(figures[4]) = 2

C10_ArtifactKeys ==
    LET saved == { p \in DOMAIN events : events[p].ev = "save_results" }
        solved(name) == { p \in DOMAIN events :
                             /\ events[p].ev = "solve"
                             /\ ode_solvers[events[p].scheme] = name
                             /\ PositionsOf("write_json", events[p].scheme) # {} }
        written == { ode_solvers[events[p].scheme] :
                        p \in { o \in DOMAIN events : events[o].ev = "write_json" } }
    IN  /\ \A n \in DOMAIN files : files[n].format = "pickle" => n = PickleName
        /\ saved # {} =>
              /\ PickleName \in DOMAIN files
              /\ files[PickleName] =
                    save_results(events[Last(PositionsOf("solve", events[Last(saved)].scheme))].sol)
        /\ dpc = "done" =>
              /\ events[Last(saved)].scheme = Len(ode_solvers)
              /\ written = { ode_solvers[k] : k \in 1..Len(ode_solvers) }
        /\ { n \in DOMAIN files : files[n].format = "json" } = { JsonName(name) : name \in written }
        /\ \A name \in written :
              LET s == events[Last(solved(name))].sol
              IN  json_load(files[JsonName(name)]) = [q |-> s.states.q, time |-> s.time]

C10_Witness ==
    /\ dpc = "done"
    /\ Len(ode_solvers) = 2
    /\ ode_solvers[1] # ode_solvers[2]
    /\ events[Last(PositionsOf("solve", 1))].sol # events[Last(PositionsOf("solve", 2))].sol
    /\ Cardinality(DOMAIN files) = 3

====
